---- MODULE Spec2Model ----
(***************************************************************************)
(* Variable-batch samplers (data/sampler/variable_batch_sampler.py) and    *)
(* the ImageNet OpenCV dataset                                             *)
(* (data/datasets/classification/imagenet_opencv_bitplane_fast.py).        *)
(*                                                                         *)
(* Crop sizes are small integers (units of pixels), floats are exact       *)
(* rationals n/d, Python lists are sequences (0-based indices of the code  *)
(* become 1-based positions), and img_batch_tuples, which the code builds  *)
(* from a set and only reads through random.choice, is a set of            *)
(* <<height, width, batch_size>> tuples.                                   *)
(***************************************************************************)
EXTENDS Integers, Sequences, FiniteSets, TLC

VARIABLES
    opts,         \* the option values both samplers are constructed from
    is_training,  \* the constructors' is_training argument
    sampler,      \* class name -> the fields of that class's instance
    raised,       \* class name -> exception of the last update_scales call
    calls,        \* class name -> epochs update_scales was called with
    gen,          \* the frame of the running __iter__ generator
    samples,      \* ImagenetOpenCVDataset.samples: list of (path, target)
    corrupt,      \* the image paths cv2 cannot load
    ds_training,  \* ImagenetOpenCVDataset.is_training
    ret           \* the last __getitem__ call: argument, outcome, samples before

vars == <<opts, is_training, sampler, raised, calls, gen, samples, corrupt,
          ds_training, ret>>

-----------------------------------------------------------------------------
(* Bounds and input sets *)

MaxCalls == 2
MaxSamples == 3
MaxData == 3

VBS == "VariableBatchSampler"
DDP == "VariableBatchSamplerDDP"
Classes == {VBS, DDP}

Epochs == {40, 41}

Min(a, b) == IF a <= b THEN a ELSE b
Max(a, b) == IF a >= b THEN a ELSE b

\* a float option value n/d
Float(n, d) == [n |-> n, d |-> d]
Factors == {Float(1, 2), Float(1, 1), Float(3, 2)}

\* the value of sampler.vbs.ep_intervals: a single int or a list of ints
IntValue(i) == [tag |-> "int", int |-> i, list |-> <<>>]
ListValue(l) == [tag |-> "list", int |-> 0, list |-> l]
EpIntervals == {IntValue(40), ListValue(<<40>>), ListValue(<<40, 41>>)}

AllOpts ==
    [crop_size_w : {4}, crop_size_h : {3},
     min_crop_size_w : {2}, max_crop_size_w : {6},
     min_crop_size_h : {1, 3}, max_crop_size_h : {5},
     scale_inc : BOOLEAN, ep_intervals : EpIntervals,
     min_scale_inc_factor : Factors, max_scale_inc_factor : Factors,
     batch_size_gpu0 : {2, 3}]

-----------------------------------------------------------------------------
(* Python primitives the methods use *)

\* int(x): truncation toward zero of the rational a / d (d > 0)
py_int(a, d) == IF a >= 0 THEN a \div d ELSE -((-a) \div d)

\* int(x * f) for an int x and a float f
py_int_mul(x, f) == py_int(x * f.n, f.d)

\* isinstance(v, int)
isinstance_int(v) == v.tag = "int"

\* epoch in v: list membership; an int is not iterable (TypeError)
py_in_raises(v) == v.tag = "int"
py_in(epoch, v) == \E i \in DOMAIN v.list : v.list[i] = epoch

\* a slice bound i clipped to 0..len(l); a negative bound counts from the end
py_bound(l, i) == IF i < 0 THEN Max(Len(l) + i, 0) ELSE Min(i, Len(l))

\* l[a:b]: a new list, empty when a >= b
py_slice(l, a, b) == SubSeq(l, py_bound(l, a) + 1, py_bound(l, b))

-----------------------------------------------------------------------------
(* data/sampler/utils.py: _image_batch_pairs, imported at line 16.  Its body *)
(* is modelled from its description, "computing scale-to-batch-size tuples  *)
(* under a memory proportionality heuristic": the minimum, the maximum and  *)
(* the base scale each get the batch size that keeps                        *)
(* height * width * batch_size within the budget of the base scale, and at  *)
(* least 1.                                                                 *)

image_batch_pairs(crop_size_h, crop_size_w, batch_size_gpu0, min_crop_size_w, max_crop_size_w, min_crop_size_h, max_crop_size_h) ==
    LET n_elements == crop_size_w * crop_size_h * batch_size_gpu0
        image_scales == {<<min_crop_size_h, min_crop_size_w>>,
                         <<max_crop_size_h, max_crop_size_w>>,
                         <<crop_size_h, crop_size_w>>}
    IN  {<<sc[1], sc[2], Max(1, n_elements \div (sc[1] * sc[2]))>> :
            sc \in image_scales}

-----------------------------------------------------------------------------
(* VariableBatchSampler *)

VBS_init(o, training) ==
    LET scale_ep_intervals ==
            IF isinstance_int(o.ep_intervals)
            THEN ListValue(<<o.ep_intervals.int>>)
            ELSE o.ep_intervals
    IN  [min_crop_size_w |-> o.min_crop_size_w,
         max_crop_size_w |-> o.max_crop_size_w,
         min_crop_size_h |-> o.min_crop_size_h,
         max_crop_size_h |-> o.max_crop_size_h,
         crop_size_w |-> o.crop_size_w,
         crop_size_h |-> o.crop_size_h,
         min_scale_inc_factor |-> o.min_scale_inc_factor,
         max_scale_inc_factor |-> o.max_scale_inc_factor,
         scale_ep_intervals |-> scale_ep_intervals,
         scale_inc |-> o.scale_inc,
         batch_size_gpu0 |-> o.batch_size_gpu0,
         img_batch_tuples |->
            IF training
            THEN image_batch_pairs(o.crop_size_h, o.crop_size_w,
                                   o.batch_size_gpu0,
                                   o.min_crop_size_w, o.max_crop_size_w,
                                   o.min_crop_size_h, o.max_crop_size_h)
            ELSE {<<o.crop_size_h, o.crop_size_w, o.batch_size_gpu0>>}]

\* the condition of update_scales (line 123), once `epoch in` has not raised
VBS_scales_due_ignoring_flag(self, epoch) == py_in(epoch, self.scale_ep_intervals)
VBS_scales_due(self, epoch) ==
    py_in(epoch, self.scale_ep_intervals) /\ self.scale_inc

\* the four += statements of update_scales (lines 124-136)
VBS_increase_swapped(self) ==
    [self EXCEPT
        !.min_crop_size_w = @ + py_int_mul(@, self.max_scale_inc_factor),
        !.max_crop_size_w = @ + py_int_mul(@, self.min_scale_inc_factor),
        !.min_crop_size_h = @ + py_int_mul(@, self.max_scale_inc_factor),
        !.max_crop_size_h = @ + py_int_mul(@, self.min_scale_inc_factor)]
VBS_increase(self) ==
    [self EXCEPT
        !.min_crop_size_w = @ + py_int_mul(@, self.min_scale_inc_factor),
        !.max_crop_size_w = @ + py_int_mul(@, self.max_scale_inc_factor),
        !.min_crop_size_h = @ + py_int_mul(@, self.min_scale_inc_factor),
        !.max_crop_size_h = @ + py_int_mul(@, self.max_scale_inc_factor)]

\* update_scales: the instance after the call and the exception it raised
VBS_update_scales(self, epoch) ==
    IF py_in_raises(self.scale_ep_intervals)
    THEN [self |-> self, exc |-> "TypeError"]
    ELSE IF VBS_scales_due(self, epoch)
    THEN LET s == VBS_increase(self)
         IN  [self |-> [s EXCEPT !.img_batch_tuples =
                           image_batch_pairs(s.crop_size_h, s.crop_size_w,
                                             s.batch_size_gpu0,
                                             s.min_crop_size_w, s.max_crop_size_w,
                                             s.min_crop_size_h, s.max_crop_size_h)],
              exc |-> "none"]
    ELSE [self |-> self, exc |-> "none"]

-----------------------------------------------------------------------------
(* VariableBatchSamplerDDP *)

DDP_init(o, training) ==
    [min_crop_size_w |-> o.min_crop_size_w,
     max_crop_size_w |-> o.max_crop_size_w,
     min_crop_size_h |-> o.min_crop_size_h,
     max_crop_size_h |-> o.max_crop_size_h,
     crop_size_w |-> o.crop_size_w,
     crop_size_h |-> o.crop_size_h,
     min_scale_inc_factor |-> o.min_scale_inc_factor,
     max_scale_inc_factor |-> o.max_scale_inc_factor,
     scale_ep_intervals |-> o.ep_intervals,
     scale_inc |-> o.scale_inc,
     batch_size_gpu0 |-> o.batch_size_gpu0,
     img_batch_tuples |->
        IF training
        THEN image_batch_pairs(o.crop_size_h, o.crop_size_w,
                               o.batch_size_gpu0,
                               o.min_crop_size_w, o.max_crop_size_w,
                               o.min_crop_size_h, o.max_crop_size_h)
        ELSE {<<o.crop_size_h, o.crop_size_w, o.batch_size_gpu0>>}]

\* the condition of update_scales (line 368), once `epoch in` has not raised
DDP_scales_due(self, epoch) ==
    py_in(epoch, self.scale_ep_intervals) /\ self.scale_inc

\* the four += statements of update_scales (lines 369-381)
DDP_increase(self) ==
    [self EXCEPT
        !.min_crop_size_w = @ + py_int_mul(@, self.min_scale_inc_factor),
        !.max_crop_size_w = @ + py_int_mul(@, self.max_scale_inc_factor),
        !.min_crop_size_h = @ + py_int_mul(@, self.min_scale_inc_factor),
        !.max_crop_size_h = @ + py_int_mul(@, self.max_scale_inc_factor)]

DDP_update_scales(self, epoch) ==
    IF py_in_raises(self.scale_ep_intervals)
    THEN [self |-> self, exc |-> "TypeError"]
    ELSE IF DDP_scales_due(self, epoch)
    THEN LET s == DDP_increase(self)
         IN  [self |-> [s EXCEPT !.img_batch_tuples =
                           image_batch_pairs(s.crop_size_h, s.crop_size_w,
                                             s.batch_size_gpu0,
                                             s.min_crop_size_w, s.max_crop_size_w,
                                             s.min_crop_size_h, s.max_crop_size_h)],
              exc |-> "none"]
    ELSE [self |-> self, exc |-> "none"]

-----------------------------------------------------------------------------
(* __iter__: one pass of the while loop (lines 109-120 and 354-365).  The   *)
(* result holds the list of indices after the pass, the new start_index     *)
(* and the batches the pass yields (none or one).                           *)

\* one element of a batch (lines 119 and 364)
batch_entry(crop_h, crop_w, b_id) == <<crop_h, crop_w, b_id>>

\* batch_ids bound to the list itself instead of a slice: += extends the list
VBS_iter_body_aliased(img_indices, start_index, n_samples, tup) ==
    LET crop_h == tup[1]
        crop_w == tup[2]
        batch_size == tup[3]
        end_index == Min(start_index + batch_size, n_samples)
        slice == py_slice(img_indices, start_index, end_index)
        n_batch_samples == Len(slice)
        batch_ids == IF Len(slice) # batch_size
                     THEN slice \o py_slice(img_indices, 0, batch_size - n_batch_samples)
                     ELSE slice
    IN  [img_indices |-> IF start_index = 0 /\ end_index = n_samples
                         THEN batch_ids ELSE img_indices,
         start_index |-> start_index + batch_size,
         yields |-> IF Len(batch_ids) > 0
                    THEN <<[i \in 1..Len(batch_ids) |-> batch_entry(crop_h, crop_w, batch_ids[i])]>>
                    ELSE <<>>]
VBS_iter_body(img_indices, start_index, n_samples, tup) ==
    LET crop_h == tup[1]
        crop_w == tup[2]
        batch_size == tup[3]
        end_index == Min(start_index + batch_size, n_samples)
        slice == py_slice(img_indices, start_index, end_index)
        n_batch_samples == Len(slice)
        batch_ids == IF Len(slice) # batch_size
                     THEN slice \o py_slice(img_indices, 0, batch_size - n_batch_samples)
                     ELSE slice
    IN  [img_indices |-> img_indices,
         start_index |-> start_index + batch_size,
         yields |-> IF Len(batch_ids) > 0
                    THEN <<[i \in 1..Len(batch_ids) |-> batch_entry(crop_h, crop_w, batch_ids[i])]>>
                    ELSE <<>>]

DDP_iter_body(indices_rank_i, start_index, n_samples_rank_i, tup) ==
    LET crop_h == tup[1]
        crop_w == tup[2]
        batch_size == tup[3]
        end_index == Min(start_index + batch_size, n_samples_rank_i)
        slice == py_slice(indices_rank_i, start_index, end_index)
        n_batch_samples == Len(slice)
        batch_ids == IF n_batch_samples # batch_size
                     THEN slice \o py_slice(indices_rank_i, 0, batch_size - n_batch_samples)
                     ELSE slice
    IN  [img_indices |-> indices_rank_i,
         start_index |-> start_index + batch_size,
         yields |-> IF Len(batch_ids) > 0
                    THEN <<[i \in 1..Len(batch_ids) |-> batch_entry(crop_h, crop_w, batch_ids[i])]>>
                    ELSE <<>>]

-----------------------------------------------------------------------------
(* ImagenetOpenCVDataset *)

\* del l[i] for a valid index i
py_del_last(l, i) == SubSeq(l, 1, Len(l) - 1)
py_del(l, i) == SubSeq(l, 1, i) \o SubSeq(l, i + 2, Len(l))

\* the crop the composed transform ends with: BitPlane(h=size[0], w=size[1])
training_transforms(size) ==
    [mode |-> "training", h |-> size[1], w |-> size[2]]

\* a tuple size is reduced to min(size): BitPlane(h=size, w=size)
validation_transforms(size) ==
    LET sz == Min(size[1], size[2])
    IN  [mode |-> "validation", h |-> sz, w |-> sz]

\* np.zeros(shape=shape, dtype=np.uint8) and an image cv2 decoded from path
zeros(shape) == [kind |-> "zeros", shape |-> shape, path |-> ""]
decoded(path) == [kind |-> "file", shape |-> <<>>, path |-> path]

NoData == [image |-> zeros(<<>>), size |-> <<0, 0>>,
           transform |-> validation_transforms(<<0, 0>>),
           label |-> 0, sample_id |-> 0]

\* __getitem__: samples after the call, the exception raised, and the dict
\* returned, together with the size = (crop_size_h, crop_size_w) the transform
\* was built for
getitem(smpls, training, unreadable, batch_indexes_tup) ==
    LET crop_size_h == batch_indexes_tup[1]
        crop_size_w == batch_indexes_tup[2]
        img_index == batch_indexes_tup[3]
        transform_fn == IF training
                        THEN training_transforms(<<crop_size_h, crop_size_w>>)
                        ELSE validation_transforms(<<crop_size_h, crop_size_w>>)
    IN  IF img_index >= Len(smpls)
        THEN [samples |-> smpls, exc |-> "IndexError", data |-> NoData]
        ELSE LET img_path == smpls[img_index + 1][1]
                 target == smpls[img_index + 1][2]
                 is_none == img_path \in unreadable
             IN  [samples |-> IF is_none THEN py_del(smpls, img_index) ELSE smpls,
                  exc |-> "none",
                  data |-> [image |-> IF is_none
                                      THEN zeros(<<crop_size_h, crop_size_w, 3>>)
                                      ELSE decoded(img_path),
                            size |-> <<crop_size_h, crop_size_w>>,
                            transform |-> transform_fn,
                            label |-> target,
                            sample_id |-> img_index]]

-----------------------------------------------------------------------------
(* State machine *)

NoGen == [pc |-> "idle", cls |-> VBS, img_indices |-> <<>>, start_index |-> 0,
          n_samples |-> 0, yielded |-> <<>>, picks |-> <<>>, indices0 |-> <<>>]
NoRet == [called |-> FALSE, arg |-> <<0, 0, 0>>, pick |-> <<0, 0, 0>>,
          exc |-> "none", data |-> NoData, before |-> <<>>]

Construct(o, training) ==
    /\ opts = o
    /\ is_training = training
    /\ sampler = [c \in Classes |->
                    IF c = VBS THEN VBS_init(o, training) ELSE DDP_init(o, training)]
    /\ raised = [c \in Classes |-> "none"]
    /\ calls = [c \in Classes |-> <<>>]

Init ==
    /\ \E o \in AllOpts, training \in BOOLEAN : Construct(o, training)
    /\ gen = NoGen
    /\ samples = <<>>
    /\ corrupt = {}
    /\ ds_training = FALSE
    /\ ret = NoRet

UpdateScalesVBS(epoch) ==
    /\ Len(calls[VBS]) < MaxCalls
    /\ LET r == VBS_update_scales(sampler[VBS], epoch)
       IN  /\ sampler' = [sampler EXCEPT ![VBS] = r.self]
           /\ raised' = [raised EXCEPT ![VBS] = r.exc]
    /\ calls' = [calls EXCEPT ![VBS] = Append(@, epoch)]
    /\ UNCHANGED <<opts, is_training, gen, samples, corrupt, ds_training, ret>>

UpdateScalesDDP(epoch) ==
    /\ Len(calls[DDP]) < MaxCalls
    /\ LET r == DDP_update_scales(sampler[DDP], epoch)
       IN  /\ sampler' = [sampler EXCEPT ![DDP] = r.self]
           /\ raised' = [raised EXCEPT ![DDP] = r.exc]
    /\ calls' = [calls EXCEPT ![DDP] = Append(@, epoch)]
    /\ UNCHANGED <<opts, is_training, gen, samples, corrupt, ds_training, ret>>

Next ==
    \/ \E epoch \in Epochs : UpdateScalesVBS(epoch)
    \/ \E epoch \in Epochs : UpdateScalesDDP(epoch)

Spec == Init /\ [][Next]_vars

\* the index lists get_indices / get_indices_rank_i may return: the dataset's
\* indices 0..n-1 in any (shuffled) order
IndexLists ==
    UNION {{l \in [1..n -> 0..(n - 1)] : \A i, j \in 1..n : l[i] = l[j] => i = j} :
              n \in 1..MaxSamples}

IterOpts ==
    {o \in AllOpts : /\ o.scale_inc /\ o.ep_intervals = ListValue(<<40>>)
                     /\ o.min_scale_inc_factor = Float(1, 1)
                     /\ o.max_scale_inc_factor = Float(1, 1)
                     /\ o.min_crop_size_h = 1}

InitIter ==
    /\ \E o \in IterOpts, training \in BOOLEAN : Construct(o, training)
    /\ gen = NoGen
    /\ samples = <<>>
    /\ corrupt = {}
    /\ ds_training = FALSE
    /\ ret = NoRet

\* __iter__ up to the first test of the while loop (lines 105-107, 350-352)
IterBegin(c, l) ==
    /\ gen.pc \in {"idle", "done"}
    /\ gen' = [pc |-> "loop", cls |-> c, img_indices |-> l, start_index |-> 0,
               n_samples |-> Len(l), yielded |-> <<>>, picks |-> <<>>,
               indices0 |-> l]
    /\ UNCHANGED <<opts, is_training, sampler, raised, calls, samples, corrupt,
                   ds_training, ret>>

IterNextVBS(tup) ==
    /\ gen.pc = "loop" /\ gen.cls = VBS
    /\ gen.start_index < gen.n_samples
    /\ tup \in sampler[VBS].img_batch_tuples
    /\ LET r == VBS_iter_body(gen.img_indices, gen.start_index, gen.n_samples, tup)
       IN  gen' = [gen EXCEPT !.img_indices = r.img_indices,
                              !.start_index = r.start_index,
                              !.yielded = @ \o r.yields,
                              !.picks = Append(@, tup)]
    /\ UNCHANGED <<opts, is_training, sampler, raised, calls, samples, corrupt,
                   ds_training, ret>>

IterNextDDP(tup) ==
    /\ gen.pc = "loop" /\ gen.cls = DDP
    /\ gen.start_index < gen.n_samples
    /\ tup \in sampler[DDP].img_batch_tuples
    /\ LET r == DDP_iter_body(gen.img_indices, gen.start_index, gen.n_samples, tup)
       IN  gen' = [gen EXCEPT !.img_indices = r.img_indices,
                              !.start_index = r.start_index,
                              !.yielded = @ \o r.yields,
                              !.picks = Append(@, tup)]
    /\ UNCHANGED <<opts, is_training, sampler, raised, calls, samples, corrupt,
                   ds_training, ret>>

\* the while condition is false: the generator is exhausted
IterEnd ==
    /\ gen.pc = "loop"
    /\ ~(gen.start_index < gen.n_samples)
    /\ gen' = [gen EXCEPT !.pc = "done"]
    /\ UNCHANGED <<opts, is_training, sampler, raised, calls, samples, corrupt,
                   ds_training, ret>>

NextIter ==
    \/ \E c \in Classes, l \in IndexLists : IterBegin(c, l)
    \/ \E tup \in sampler[VBS].img_batch_tuples : IterNextVBS(tup)
    \/ \E tup \in sampler[DDP].img_batch_tuples : IterNextDDP(tup)
    \/ IterEnd

SpecIter == InitIter /\ [][NextIter]_vars

\* the image folder: files in order, each with a class index
Paths == <<"a.jpg", "b.jpg", "c.jpg", "d.jpg", "e.jpg">>
Targets == {0, 1}
Folders ==
    UNION {{[i \in 1..n |-> <<Paths[i], t[i]>>] : t \in [1..n -> Targets]} :
              n \in 1..MaxData}

DataOpts == {o \in IterOpts : o.batch_size_gpu0 = 2}

InitData ==
    /\ \E o \in DataOpts, training \in BOOLEAN :
          /\ Construct(o, training)
          /\ ds_training = training
    /\ gen = NoGen
    /\ samples \in Folders
    /\ corrupt \in SUBSET {samples[i][1] : i \in DOMAIN samples}
    /\ ret = NoRet

\* the data loader fetches element b_id of a batch the sampler of class c
\* builds from the tuple it picked
GetItem(c, tup, b_id) ==
    /\ tup \in sampler[c].img_batch_tuples
    /\ LET arg == batch_entry(tup[1], tup[2], b_id)
           r == getitem(samples, ds_training, corrupt, arg)
       IN  /\ samples' = r.samples
           /\ ret' = [called |-> TRUE, arg |-> arg, pick |-> tup, exc |-> r.exc,
                      data |-> r.data, before |-> samples]
    /\ UNCHANGED <<opts, is_training, sampler, raised, calls, gen, corrupt,
                   ds_training>>

NextData ==
    \E c \in Classes, b_id \in 0..(MaxData - 1) :
        \E tup \in sampler[c].img_batch_tuples : GetItem(c, tup, b_id)

SpecData == InitData /\ [][NextData]_vars

-----------------------------------------------------------------------------
(* Properties *)

Last(l) == l[Len(l)]

\* update_scales has just been called on the instance of class c
Called(c) == calls[c]' # calls[c]

\* the claims' "epoch in scale_ep_intervals and scale_inc true"
IsTriggered(self, epoch) ==
    /\ self.scale_inc
    /\ self.scale_ep_intervals.tag = "list"
    /\ \E i \in 1..Len(self.scale_ep_intervals.list) :
          self.scale_ep_intervals.list[i] = epoch

Bounds(self) == <<self.min_crop_size_w, self.max_crop_size_w,
                  self.min_crop_size_h, self.max_crop_size_h>>

BaseTuple == <<opts.crop_size_h, opts.crop_size_w, opts.batch_size_gpu0>>

\* C1: a call of update_scales never changes crop_size_h, crop_size_w,
\* batch_size_gpu0, the increase factors or scale_ep_intervals, and a call
\* whose epoch is not in scale_ep_intervals, or with scale_inc false, also
\* leaves the four crop bounds and img_batch_tuples as they were.
C1_UpdateScalesFrame ==
    [][\A c \in Classes :
          Called(c) =>
            LET old == sampler[c]
                new == sampler[c]'
            IN  /\ new.crop_size_h = old.crop_size_h
                /\ new.crop_size_w = old.crop_size_w
                /\ new.batch_size_gpu0 = old.batch_size_gpu0
                /\ new.min_scale_inc_factor = old.min_scale_inc_factor
                /\ new.max_scale_inc_factor = old.max_scale_inc_factor
                /\ new.scale_ep_intervals = old.scale_ep_intervals
                /\ ~IsTriggered(old, Last(calls[c]')) =>
                      /\ Bounds(new) = Bounds(old)
                      /\ new.img_batch_tuples = old.img_batch_tuples]_vars

\* a call that increased the bounds, then a call at an epoch that is not
\* configured, on a sampler with scale_inc set
C1_Witness ==
    \E c \in Classes :
        /\ Len(calls[c]) = 2
        /\ sampler[c].scale_inc
        /\ IsTriggered(sampler[c], calls[c][1])
        /\ ~IsTriggered(sampler[c], calls[c][2])
        /\ sampler[c].min_crop_size_w # opts.min_crop_size_w

\* C2: a sampler constructed with is_training = False keeps the single tuple
\* (crop_size_h, crop_size_w, batch_size_gpu0) in img_batch_tuples whatever
\* update_scales calls are made, so every batch element it yields carries the
\* base crop size.
C2_EvalKeepsBaseTuple ==
    ~is_training =>
        /\ \A c \in Classes : sampler[c].img_batch_tuples = {BaseTuple}
        /\ \A k \in 1..Len(gen.yielded) : \A i \in 1..Len(gen.yielded[k]) :
              /\ gen.yielded[k][i][1] = opts.crop_size_h
              /\ gen.yielded[k][i][2] = opts.crop_size_w

\* C3: every batch __iter__ yields has exactly batch_size elements of the
\* tuple picked for it, each carrying that tuple's height and width.
C3_BatchConformsToTuple ==
    /\ Len(gen.yielded) = Len(gen.picks)
    /\ \A k \in 1..Len(gen.yielded) :
          /\ Len(gen.yielded[k]) = gen.picks[k][3]
          /\ \A i \in 1..Len(gen.yielded[k]) :
                /\ gen.yielded[k][i][1] = gen.picks[k][1]
                /\ gen.yielded[k][i][2] = gen.picks[k][2]

Ids(batch) == [i \in 1..Len(batch) |-> batch[i][3]]

RECURSIVE Flat(_)
Flat(batches) ==
    IF batches = <<>> THEN <<>> ELSE Ids(Head(batches)) \o Flat(Tail(batches))

\* C4: the ids of the batches yielded so far start with the part of the index
\* list the pass has consumed, in the list's order; an exhausted pass has
\* yielded the whole list; no batch but the last holds ids beyond the list;
\* and the index list itself is as get_indices returned it.
C4_EnumeratesAllIndices ==
    gen.pc # "idle" =>
        LET l == gen.indices0
            n == Len(l)
            flat == Flat(gen.yielded)
            consumed == Min(gen.start_index, n)
        IN  /\ gen.img_indices = l
            /\ Len(flat) >= consumed
            /\ \A i \in 1..consumed : flat[i] = l[i]
            /\ gen.pc = "done" => consumed = n
            /\ \A k \in 1..(Len(gen.yielded) - 1) :
                  Len(Flat(SubSeq(gen.yielded, 1, k))) <= n

\* an exhausted pass of several batches whose last batch was padded, over a
\* shuffled list
C4_Witness ==
    /\ gen.pc = "done"
    /\ Len(gen.yielded) >= 2
    /\ Len(Flat(gen.yielded)) > Len(gen.indices0)
    /\ gen.indices0[1] # 0

\* C5: __getitem__((h, w, i)) at a valid index i of an unreadable image raises
\* nothing, uses a zero image of shape (h, w, 3), removes exactly sample i
\* (the others keep their order), and returns the removed sample's label and
\* sample_id i; of a readable image, it leaves samples unchanged.
C5_CorruptImageSkipped ==
    (ret.called /\ ret.arg[3] < Len(ret.before)) =>
        LET h == ret.arg[1]
            w == ret.arg[2]
            i == ret.arg[3]
            removed == ret.before[i + 1]
        IN  IF removed[1] \in corrupt
            THEN /\ ret.exc = "none"
                 /\ ret.data.image.kind = "zeros"
                 /\ ret.data.image.shape = <<h, w, 3>>
                 /\ Len(samples) = Len(ret.before) - 1
                 /\ \A j \in 1..i : samples[j] = ret.before[j]
                 /\ \A j \in (i + 1)..Len(samples) : samples[j] = ret.before[j + 1]
                 /\ ret.data.label = removed[2]
                 /\ ret.data.sample_id = i
            ELSE samples = ret.before

\* an unreadable image in the middle of the list, with another label than its
\* successor, has just been fetched
C5_Witness ==
    /\ ret.called
    /\ ret.arg[3] + 1 < Len(ret.before)
    /\ ret.arg[3] >= 1
    /\ ret.before[ret.arg[3] + 1][1] \in corrupt
    /\ ret.before[ret.arg[3] + 1][2] # ret.before[ret.arg[3] + 2][2]
    /\ Len(samples) < Len(ret.before)

RECURSIVE Pow2(_)
Pow2(k) == IF k = 0 THEN 1 ELSE 2 * Pow2(k - 1)

\* the triggered calls among the calls made on the instance of class c
NTriggered(c) ==
    Cardinality({i \in 1..Len(calls[c]) : IsTriggered(sampler[c], calls[c][i])})

\* new = old + int(old * f), for old >= 0 and the factor f = n/d >= 0
IncreasedBy(old, new, f) ==
    /\ (new - old) * f.d <= old * f.n
    /\ old * f.n < (new - old + 1) * f.d

C6_Doubling ==
    \A c \in Classes :
        (/\ opts.min_scale_inc_factor = Float(1, 1)
         /\ opts.max_scale_inc_factor = Float(1, 1)) =>
            LET m == Pow2(NTriggered(c))
            IN  Bounds(sampler[c]) =
                    <<m * opts.min_crop_size_w, m * opts.max_crop_size_w,
                      m * opts.min_crop_size_h, m * opts.max_crop_size_h>>

C6_Step ==
    \A c \in Classes :
        (Called(c) /\ IsTriggered(sampler[c], Last(calls[c]'))) =>
            LET old == sampler[c]
                new == sampler[c]'
            IN  /\ IncreasedBy(old.min_crop_size_w, new.min_crop_size_w,
                               old.min_scale_inc_factor)
                /\ IncreasedBy(old.min_crop_size_h, new.min_crop_size_h,
                               old.min_scale_inc_factor)
                /\ IncreasedBy(old.max_crop_size_w, new.max_crop_size_w,
                               old.max_scale_inc_factor)
                /\ IncreasedBy(old.max_crop_size_h, new.max_crop_size_h,
                               old.max_scale_inc_factor)

\* C6: a triggered update_scales call turns each minimum bound into
\* old + int(old * min_scale_inc_factor) and each maximum bound into
\* old + int(old * max_scale_inc_factor); with both factors 1.0 every bound
\* is 2^k times its initial value after k triggered calls.
C6_TriggeredIncrease == []C6_Doubling /\ [][C6_Step]_vars

\* two triggered calls at the same configured epoch with the default factors
C6_Witness ==
    \E c \in Classes :
        /\ NTriggered(c) = 2
        /\ calls[c][1] = calls[c][2]
        /\ opts.min_scale_inc_factor = Float(1, 1)
        /\ opts.max_scale_inc_factor = Float(1, 1)
        /\ sampler[c].max_crop_size_h = 4 * opts.max_crop_size_h

\* C7: __getitem__ uses the first element of its tuple as the crop width and
\* the second as the crop height, the order in which the samplers build a
\* batch element, so the crop applied has the height and width of the tuple
\* the sampler picked.
C7_TupleIsWidthHeightId ==
    (ret.called /\ ret.exc = "none") =>
        /\ ret.data.size[2] = ret.arg[1]
        /\ ret.data.size[1] = ret.arg[2]
        /\ ret.arg = <<ret.pick[1], ret.pick[2], ret.arg[3]>>
        /\ ret.data.transform.h = ret.pick[1]
        /\ ret.data.transform.w = ret.pick[2]

\* C8: constructed from the same options and given the same update_scales
\* calls, both classes finish every call without an exception and with equal
\* crop bounds; and one pass of their loops over the same index list with
\* the same tuple yields the same batch.
C8_ClassesStepAlike ==
    calls[VBS] = calls[DDP] =>
        /\ raised[VBS] = "none"
        /\ raised[DDP] = "none"
        /\ Bounds(sampler[VBS]) = Bounds(sampler[DDP])
        /\ \A l \in IndexLists, tup \in sampler[VBS].img_batch_tuples :
              \A start \in 0..(Len(l) - 1) :
                 VBS_iter_body(l, start, Len(l), tup)
                    = DDP_iter_body(l, start, Len(l), tup)

====
